---- MODULE Spec2Model ----
(***************************************************************************)
(* Differential growth step of op_grow.py: DiffGrowthStepOperator.execute  *)
(* and grow_step with its helpers.                                         *)
(*                                                                         *)
(* Numbers.  Python floats are modelled as exact rationals <<n, d>> in     *)
(* lowest terms with d > 0, so +, -, *, / and comparisons are those of the *)
(* reals.  The library functions the code calls (math.exp, Vector          *)
(* .normalized, Vector.length, noise.noise_vector) are computed to a       *)
(* resolution of 1/4, and a position written to vert.co is kept to a       *)
(* resolution of 1/64, both rounding toward 0.  Vectors are triples of     *)
(* rationals.  weight_decay ranges over integers, so that the power is     *)
(* exact.                                                                  *)
(*                                                                         *)
(* Mesh.  A mesh is its vertex list (co, weight), its edge list and a flag *)
(* telling whether it carries faces.  A vertex is its index in bm.verts.   *)
(* The deform layer entry of a vertex is either NoWeight (group_index is   *)
(* not in the vertex's weights) or a rational.  bmesh.ops.subdivide_edges  *)
(* is modelled by what it does to vertices and edges; the geometry it adds *)
(* to fill a cut face is not, so a mesh with faces is followed up to its   *)
(* first cut (field cut) and no further.                                   *)
(***************************************************************************)
EXTENDS Integers, Sequences, FiniteSets, TLC

VARIABLES mesh, settings, last, steps, unfreed

vars == <<mesh, settings, last, steps, unfreed>>

\* Number of times the operator is invoked in one behaviour.
MaxSteps == 2

---------------------------------------------------------------------------
\* Rational arithmetic

Abs(x) == IF x < 0 THEN -x ELSE x

RECURSIVE Gcd(_, _)
Gcd(a, b) == IF b = 0 THEN a ELSE Gcd(b, a % b)

Rat(n, d) ==
  LET s == IF d < 0 THEN -1 ELSE 1
      g == Gcd(Abs(n), Abs(d))
  IN  <<(s * n) \div g, (s * d) \div g>>

Zero == <<0, 1>>
One  == <<1, 1>>
Half == <<1, 2>>

\* sums and products are reduced before they are formed, and comparisons go
\* by integer parts (Euclid), so that no intermediate value leaves 32 bits
RAdd(a, b) ==
  LET g == Gcd(a[2], b[2])
  IN  Rat(a[1] * (b[2] \div g) + b[1] * (a[2] \div g), (a[2] \div g) * b[2])
RNeg(a)    == <<-a[1], a[2]>>
RSub(a, b) == RAdd(a, RNeg(b))
RMul(a, b) ==
  LET g == Gcd(Abs(a[1]), b[2])
      h == Gcd(Abs(b[1]), a[2])
  IN  <<(a[1] \div g) * (b[1] \div h), (a[2] \div h) * (b[2] \div g)>>
RInv(a)    == IF a[1] < 0 THEN <<-a[2], -a[1]>> ELSE <<a[2], a[1]>>
RDiv(a, b) == RMul(a, RInv(b))

RECURSIVE RLt(_, _)
RLt(a, b) ==
  LET fa == a[1] \div a[2]
      fb == b[1] \div b[2]
      ra == a[1] % a[2]
      rb == b[1] % b[2]
  IN  IF fa # fb THEN fa < fb
      ELSE IF rb = 0 THEN FALSE
      ELSE IF ra = 0 THEN TRUE
      ELSE RLt(<<b[2], rb>>, <<a[2], ra>>)

RLe(a, b)  == ~RLt(b, a)
RSign(a)   == IF a[1] > 0 THEN 1 ELSE IF a[1] < 0 THEN -1 ELSE 0
Floor(a)   == a[1] \div a[2]

\* a value rounded toward 0 to a multiple of 1/k
Round(a, k) ==
  LET n == Abs(a[1])
      r == RAdd(<<n \div a[2], 1>>, Rat((k * (n % a[2])) \div a[2], k))
  IN  IF a[1] < 0 THEN <<-r[1], r[2]>> ELSE r

\* a value rounded to the resolution 1/4 of the library functions
Quant(a) == Round(a, 4)

RECURSIVE ISqrtFrom(_, _)
ISqrtFrom(n, r) == IF (r + 1) * (r + 1) > n THEN r ELSE ISqrtFrom(n, r + 1)

\* square root of a rational >= 0, to the resolution 1/4
Sqrt(q) == Rat(ISqrtFrom(16 * Floor(q) + (16 * (q[1] % q[2])) \div q[2], 0), 4)

\* math.exp, by its series 1 + x + x^2/2, to the resolution 1/4
Exp(x) == Quant(RAdd(One, RAdd(x, RMul(Half, RMul(x, x)))))

---------------------------------------------------------------------------
\* mathutils.Vector

ZeroVec == <<Zero, Zero, Zero>>

VAdd(a, b)   == <<RAdd(a[1], b[1]), RAdd(a[2], b[2]), RAdd(a[3], b[3])>>
VSub(a, b)   == <<RSub(a[1], b[1]), RSub(a[2], b[2]), RSub(a[3], b[3])>>
VScale(r, a) == <<RMul(r, a[1]), RMul(r, a[2]), RMul(r, a[3])>>
VLen2(a)     == RAdd(RMul(a[1], a[1]), RAdd(RMul(a[2], a[2]), RMul(a[3], a[3])))
VLength(a)   == Sqrt(VLen2(a))

\* a vector as vert.co stores it: coordinates are kept to a resolution of 1/64
Stored(a) == <<Round(a[1], 64), Round(a[2], 64), Round(a[3], 64)>>

\* Vector.normalized(): the zero vector stays the zero vector
Normalized(a) ==
  LET l == VLength(a)
  IN  IF l = Zero THEN ZeroVec
      ELSE <<Quant(RDiv(a[1], l)), Quant(RDiv(a[2], l)), Quant(RDiv(a[3], l))>>

\* One component of the coherent noise field: 0 on the integer lattice,
\* continuous, of magnitude at most 1, alternating in sign from cell to cell.
NoiseComp(r) ==
  LET f == RSub(r, <<Floor(r), 1>>)
      s == IF Floor(r) % 2 = 0 THEN 1 ELSE -1
  IN  Quant(RMul(<<4 * s, 1>>, RMul(f, RSub(One, f))))

\* noise.noise_vector(p)
noise_vector(p) ==
  <<NoiseComp(RAdd(p[1], p[3])), NoiseComp(RAdd(p[2], p[3])),
    NoiseComp(RAdd(p[1], p[2]))>>

---------------------------------------------------------------------------
\* Lengths compared the way the subdivision test compares them: a real of the
\* form s * sqrt(q), kept as <<s, q>> with s its sign and q >= 0 its square.

SR(r)       == <<RSign(r), RMul(r, r)>>
SRDiv(x, y) == <<x[1] * y[1], RDiv(x[2], y[2])>>
SRLt(x, y)  ==
  IF x[1] # y[1] THEN x[1] < y[1]
  ELSE IF x[1] = 1 THEN RLt(x[2], y[2])
  ELSE IF x[1] = -1 THEN RLt(y[2], x[2])
  ELSE FALSE

---------------------------------------------------------------------------
\* Weighted mesh

NoWeight == <<>>

Verts(m) == 1 .. Len(m.co)

\* mutant: a vertex without a weight counts as weight 1
WeightDefaultOne(weights, v) ==
  IF weights[v] = NoWeight THEN One ELSE weights[v]

get_vertex_weight(weights, v) ==
  IF weights[v] = NoWeight THEN Zero ELSE weights[v]

\* w ** weight_decay raises ZeroDivisionError
PowRaises(w, k) == w = Zero /\ k < 0

\* mutant: a zero base gives 1 for every exponent, as it does for exponent 0
RECURSIVE PowZeroIsOne(_, _)
PowZeroIsOne(w, k) ==
  IF k = 0 \/ w = Zero THEN One
  ELSE IF k < 0 THEN PowZeroIsOne(RDiv(One, w), -k)
  ELSE RMul(w, PowZeroIsOne(w, k - 1))

RECURSIVE Pow(_, _)
Pow(w, k) ==
  IF k = 0 THEN One
  ELSE IF k < 0 THEN Pow(RDiv(One, w), -k)
  ELSE RMul(w, Pow(w, k - 1))

\* vert.link_edges, as indices into the edge list
link_edges(edges, v) == {e \in 1 .. Len(edges) : v \in {edges[e][1], edges[e][2]}}

other_vert(edge, v) == IF edge[1] = v THEN edge[2] ELSE edge[1]

\* edge.calc_length()
calc_length(co, edge) ==
  LET q == VLen2(VSub(co[edge[1]], co[edge[2]]))
  IN  <<RSign(q), q>>

RECURSIVE SumVec(_, _)
SumVec(f, S) ==
  IF S = {} THEN ZeroVec
  ELSE LET x == CHOOSE y \in S : TRUE IN VAdd(f[x], SumVec(f, S \ {x}))

\* mutant: the sum of the end weights, not divided by their number
SumEdgeWeight(weights, edge) ==
  RAdd(get_vertex_weight(weights, edge[1]), get_vertex_weight(weights, edge[2]))

calc_avg_edge_weight(weights, edge) ==
  RDiv(RAdd(get_vertex_weight(weights, edge[1]),
            get_vertex_weight(weights, edge[2])), <<2, 1>>)

calc_vert_attraction(co, edges, v) ==
  LET le == link_edges(edges, v)
  IN  SumVec([e \in le |-> VSub(co[other_vert(edges[e], v)], co[v])], le)

\* kd.find_range(p, r): the indexed points within distance r of p
find_range(kd, p, r) ==
  {i \in 1 .. Len(kd) : RLe(VLen2(VSub(p, kd[i])), RMul(r, r))}

\* mutant: the neighbours are read where they are now, not from the index
RepulsionLive(co, kd, v, radius) ==
  LET found == find_range(co, co[v], RMul(<<2, 1>>, radius)) \ {v}
  IN  SumVec([i \in found |->
                LET direction == Normalized(VSub(co[v], co[i]))
                    distance  == VLength(VSub(co[v], co[i]))
                    magnitude == Exp(RSub(distance, radius))
                IN  VScale(magnitude, direction)], found)

calc_vert_repulsion(co, kd, v, radius) ==
  LET found == find_range(kd, co[v], RMul(<<2, 1>>, radius)) \ {v}
  IN  SumVec([i \in found |->
                LET direction == Normalized(VSub(co[v], kd[i]))
                    distance  == VLength(VSub(co[v], kd[i]))
                    magnitude == Exp(RSub(distance, radius))
                IN  VScale(magnitude, direction)], found)

---------------------------------------------------------------------------
\* grow_step

\* mutant: weight >= 0 collects a vertex
RECURSIVE ActiveFromZero(_, _)
ActiveFromZero(weights, v) ==
  IF v > Len(weights) THEN <<>>
  ELSE IF RLe(Zero, get_vertex_weight(weights, v))
       THEN <<v>> \o ActiveFromZero(weights, v + 1)
       ELSE ActiveFromZero(weights, v + 1)

\* "Collect vertices with weights": the active vertices from v on, in bm.verts
\* order
RECURSIVE ActiveFrom(_, _)
ActiveFrom(weights, v) ==
  IF v > Len(weights) THEN <<>>
  ELSE IF RLt(Zero, get_vertex_weight(weights, v))
       THEN <<v>> \o ActiveFrom(weights, v + 1)
       ELSE ActiveFrom(weights, v + 1)

ActiveVerts(weights) == ActiveFrom(weights, 1)

\* the set of edges linked to the collected vertices
CollectEdges(edges, verts) ==
  UNION {link_edges(edges, verts[i]) : i \in 1 .. Len(verts)}

\* mutant: attraction reads the positions the step started with
RECURSIVE ForcePassSnapshot(_, _, _, _, _)
ForcePassSnapshot(m, s, kd, verts, acc) ==
  IF verts = <<>> THEN acc
  ELSE
    LET vert   == Head(verts)
        weight == get_vertex_weight(m.weight, vert)
    IN  IF weight = Zero THEN ForcePassSnapshot(m, s, kd, Tail(verts), acc)
        ELSE
          LET seed_vector == VScale(s.seed, <<Zero, Zero, One>>)
              f_attr  == calc_vert_attraction(kd, m.edges, vert)
              f_rep   == calc_vert_repulsion(acc.co, kd, vert, s.collision_radius)
              f_noise == noise_vector(VAdd(VScale(s.noise_scale, acc.co[vert]),
                                           seed_vector))
              force   == VAdd(VScale(s.fac_attr, f_attr),
                              VAdd(VScale(s.fac_rep, f_rep),
                                   VScale(s.fac_noise, f_noise)))
              offset  == VScale(RMul(RMul(s.dt, s.dt), weight), force)
          IN  ForcePassSnapshot(m, s, kd, Tail(verts),
                        [co     |-> [acc.co EXCEPT ![vert] = Stored(VAdd(@, offset))],
                         f_attr |-> [acc.f_attr EXCEPT ![vert] = f_attr],
                         f_rep  |-> [acc.f_rep EXCEPT ![vert] = f_rep]])

\* "Calc forces": the vertices of verts in order, each reading the live
\* positions acc.co and the index kd, and writing its own position.
RECURSIVE ForcePass(_, _, _, _, _)
ForcePass(m, s, kd, verts, acc) ==
  IF verts = <<>> THEN acc
  ELSE
    LET vert   == Head(verts)
        weight == get_vertex_weight(m.weight, vert)
    IN  IF weight = Zero THEN ForcePass(m, s, kd, Tail(verts), acc)
        ELSE
          LET seed_vector == VScale(s.seed, <<Zero, Zero, One>>)
              f_attr  == calc_vert_attraction(acc.co, m.edges, vert)
              f_rep   == calc_vert_repulsion(acc.co, kd, vert, s.collision_radius)
              f_noise == noise_vector(VAdd(VScale(s.noise_scale, acc.co[vert]),
                                           seed_vector))
              force   == VAdd(VScale(s.fac_attr, f_attr),
                              VAdd(VScale(s.fac_rep, f_rep),
                                   VScale(s.fac_noise, f_noise)))
              offset  == VScale(RMul(RMul(s.dt, s.dt), weight), force)
          IN  ForcePass(m, s, kd, Tail(verts),
                        [co     |-> [acc.co EXCEPT ![vert] = Stored(VAdd(@, offset))],
                         f_attr |-> [acc.f_attr EXCEPT ![vert] = f_attr],
                         f_rep  |-> [acc.f_rep EXCEPT ![vert] = f_rep]])

\* mutant: only the vertices of weight > 0 are decayed
RECURSIVE DecayActiveOnly(_, _, _)
DecayActiveOnly(weights, weight_decay, v) ==
  IF v > Len(weights) THEN [weight |-> weights, raised |-> FALSE]
  ELSE
    LET w == get_vertex_weight(weights, v)
    IN  IF ~RLt(Zero, w) THEN DecayActiveOnly(weights, weight_decay, v + 1)
        ELSE IF PowRaises(w, weight_decay)
        THEN [weight |-> weights, raised |-> TRUE]
        ELSE DecayActiveOnly([weights EXCEPT ![v] = Pow(w, weight_decay)],
                       weight_decay, v + 1)

\* "Readjust weights": every vertex of the mesh from v on, in order; the loop
\* stops where the power raises, leaving the later weights as they were.
RECURSIVE DecayLoop(_, _, _)
DecayLoop(weights, weight_decay, v) ==
  IF v > Len(weights) THEN [weight |-> weights, raised |-> FALSE]
  ELSE
    LET w == get_vertex_weight(weights, v)
    IN  IF PowRaises(w, weight_decay)
        THEN [weight |-> weights, raised |-> TRUE]
        ELSE DecayLoop([weights EXCEPT ![v] = Pow(w, weight_decay)],
                       weight_decay, v + 1)

\* an edge of the collected set reaches the division l / split_radius
ReachesDivision(weights, edge) == calc_avg_edge_weight(weights, edge) # Zero

\* mutant: (l / split_radius) >= (1 / avg_weight)
SubdivideAtOrAbove(co, weights, edge, split_radius) ==
  LET avg_weight == calc_avg_edge_weight(weights, edge)
      l          == calc_length(co, edge)
  IN  ~SRLt(SRDiv(l, SR(split_radius)), SRDiv(SR(One), SR(avg_weight)))

\* (l / split_radius) > (1 / avg_weight), for split_radius # 0 and avg_weight # 0
ShouldSubdivide(co, weights, edge, split_radius) ==
  LET avg_weight == calc_avg_edge_weight(weights, edge)
      l          == calc_length(co, edge)
  IN  SRLt(SRDiv(SR(One), SR(avg_weight)), SRDiv(l, SR(split_radius)))

\* the weight bmesh gives the vertex cut into an edge: the deform layer of the
\* two ends interpolated half and half, no entry where neither end has one
InterpWeight(weights, edge) ==
  IF weights[edge[1]] = NoWeight /\ weights[edge[2]] = NoWeight THEN NoWeight
  ELSE calc_avg_edge_weight(weights, edge)

\* bmesh.ops.subdivide_edges(bm, edges, cuts=1): each edge of todo, in edge
\* order, gets one new vertex at its middle and is replaced by its two halves.
\* The existing vertices keep their position and weight.
RECURSIVE SubdivideFrom(_, _, _)
SubdivideFrom(m, todo, e) ==
  IF e > Len(m.edges) THEN m
  ELSE IF e \notin todo THEN SubdivideFrom(m, todo, e + 1)
  ELSE
    LET edge == m.edges[e]
        new  == Len(m.co) + 1
        mid  == Stored(VScale(Half, VAdd(m.co[edge[1]], m.co[edge[2]])))
    IN  SubdivideFrom(
          [co     |-> Append(m.co, mid),
           weight |-> Append(m.weight, InterpWeight(m.weight, edge)),
           edges  |-> Append([m.edges EXCEPT ![e] = <<edge[1], new>>],
                             <<new, edge[2]>>),
           faces  |-> m.faces,
           cut    |-> m.faces],
          todo \ {e}, e + 1)

subdivide_edges(m, todo) == SubdivideFrom(m, todo, 1)

\* where grow_step raises ZeroDivisionError: in the decay loop (line 88), at
\* the division by split_radius (line 98), or nowhere
Raised(m, s) ==
  LET edges == CollectEdges(m.edges, ActiveVerts(m.weight))
      dl    == DecayLoop(m.weight, s.weight_decay, 1)
  IN  IF dl.raised THEN "decay"
      ELSE IF /\ s.split_radius = Zero
              /\ \E e \in edges : ReachesDivision(dl.weight, m.edges[e])
           THEN "subdivide"
      ELSE "none"

\* the step, with what it computed on the way: the collected verts and edges,
\* the positions after the force pass (co_force), the force terms of each
\* collected vertex, edges_to_subdivide, and the working copy bm as the step
\* leaves it, raising or not
grow_step(m, s) ==
  LET verts == ActiveVerts(m.weight)
      edges == CollectEdges(m.edges, verts)
      kd    == m.co
      none  == [v \in Verts(m) |-> ZeroVec]
      fp    == ForcePass(m, s, kd, verts,
                         [co |-> m.co, f_attr |-> none, f_rep |-> none])
      dl    == DecayLoop(m.weight, s.weight_decay, 1)
      todo  == IF Raised(m, s) # "none" THEN {}
               ELSE {e \in edges :
                       /\ ReachesDivision(dl.weight, m.edges[e])
                       /\ ShouldSubdivide(fp.co, dl.weight, m.edges[e],
                                          s.split_radius)}
      bm1   == [m EXCEPT !.co = fp.co, !.weight = dl.weight]
  IN  [ran      |-> TRUE,
       pre      |-> m,
       verts    |-> verts,
       edges    |-> edges,
       co_force |-> fp.co,
       f_attr   |-> fp.f_attr,
       f_rep    |-> fp.f_rep,
       edges_to_subdivide |-> todo,
       raised   |-> Raised(m, s),
       bm       |-> IF todo = {} THEN bm1 ELSE subdivide_edges(bm1, todo)]

---------------------------------------------------------------------------
\* The objects the operator is run on

V(x, y) == <<x, y, Zero>>

Two == <<2, 1>>

\* A single edge, two loose vertices, an open path and a one-quad grid (2 x 2
\* vertices), each with the weights its vertices are drawn from.
Shapes ==
  {[co |-> <<V(Zero, Zero), V(l, Zero)>>, edges |-> <<<<1, 2>>>>,
    faces |-> FALSE, wts |-> {NoWeight, Zero, Half, One}] : l \in {One, Two}}
  \cup
  {[co |-> <<V(Zero, Zero), V(One, Zero)>>, edges |-> <<>>,
    faces |-> FALSE, wts |-> {NoWeight, Zero, One}],
   [co |-> <<V(Zero, Zero), V(One, Zero), V(One, One)>>,
    edges |-> <<<<1, 2>>, <<2, 3>>>>,
    faces |-> FALSE, wts |-> {NoWeight, Zero, Half, One}]}
  \cup
  {[co |-> <<V(Zero, Zero), V(l, Zero), V(Zero, l), V(l, l)>>,
    edges |-> <<<<1, 2>>, <<1, 3>>, <<2, 4>>, <<3, 4>>>>,
    faces |-> TRUE, wts |-> {Zero, One}] : l \in {<<1, 4>>, Half, One}}

\* the force mixes <<fac_attr, fac_rep, fac_noise>>: none, each term alone, all
Mixes ==
  {<<Zero, Zero, Zero>>, <<One, Zero, Zero>>, <<Zero, One, Zero>>,
   <<Zero, Zero, One>>, <<One, One, One>>}

Settings ==
  {[seed |-> One, collision_radius |-> One, split_radius |-> sr, dt |-> One,
    weight_decay |-> k, noise_scale |-> Half,
    fac_attr |-> f[1], fac_rep |-> f[2], fac_noise |-> f[3]]
     : sr \in {Zero, Half, <<-1, 2>>}, k \in {-1, 0, 1, 2}, f \in Mixes}

NoStep == [ran |-> FALSE]

Init ==
  /\ \E sh \in Shapes : \E w \in [1 .. Len(sh.co) -> sh.wts] :
       mesh = [co |-> sh.co, weight |-> w, edges |-> sh.edges,
               faces |-> sh.faces, cut |-> FALSE]
  /\ settings \in Settings
  /\ last = NoStep
  /\ steps = 0
  /\ unfreed = 0

\* DiffGrowthStepOperator.execute, grow_step returning r: the working copy is
\* written back to obj.data and freed.
ExecuteFinished(r) ==
  /\ r.raised = "none"
  /\ last' = r
  /\ mesh' = r.bm
  /\ steps' = steps + 1
  /\ UNCHANGED <<settings, unfreed>>

\* DiffGrowthStepOperator.execute, grow_step raising: the exception leaves
\* execute at line 17, before bm.to_mesh and bm.free.
ExecuteRaised(r) ==
  /\ r.raised # "none"
  /\ last' = r
  /\ steps' = steps + 1
  /\ unfreed' = unfreed + 1
  /\ UNCHANGED <<mesh, settings>>

\* One invocation of the operator on the object; grow_step is run once and
\* execute ends the one way or the other.
Next ==
  /\ steps < MaxSteps
  /\ ~mesh.cut
  /\ \E r \in {grow_step(mesh, settings)} :
       ExecuteFinished(r) \/ ExecuteRaised(r)

Spec == Init /\ [][Next]_vars

---------------------------------------------------------------------------
\* Vocabulary of the properties

\* the weight a deform layer entry counts as
WeightOf(w) == IF w = NoWeight THEN Zero ELSE w

Inactive(w) == w \in {NoWeight, Zero}

\* the vertices joined to v by an edge
Nbrs(edges, v) ==
  {other_vert(edges[e], v) : e \in link_edges(edges, v)}

\* the position of n that a vertex v of the pass reads: n as the pass left it
\* when n comes before v in bm.verts, and n as the step found it otherwise
SeenBy(v, n) == IF n < v THEN last.co_force[n] ELSE last.pre.co[n]

\* sum, over the neighbours of v, of where[n] - (start position of v)
OffsetSum(v, where) ==
  LET N == Nbrs(last.pre.edges, v)
  IN  SumVec([n \in N |-> VSub(where[n], last.pre.co[v])], N)

SRMul(x, y) == <<x[1] * y[1], RMul(x[2], y[2])>>

Returned == last.ran /\ last.raised = "none"

\* the decay loop of the last step ran over every vertex
Decayed == last.ran /\ last.raised # "decay"

\* C1. After a step whose decay loop has run, every vertex the step started
\* with carries its start weight (0 when it had none) raised to weight_decay,
\* whether it was active, moved, or had an edge cut.
C1_WeightDecay ==
  Decayed =>
    \A v \in Verts(last.pre) :
      WeightOf(last.bm.weight[v])
        = Pow(WeightOf(last.pre.weight[v]), settings.weight_decay)

C1_Witness ==
  /\ Returned
  /\ settings.weight_decay = 2
  /\ last.edges_to_subdivide # {}
  /\ \E v \in Verts(last.pre) :
       /\ last.pre.weight[v] = Half
       /\ last.bm.weight[v] = <<1, 4>>
       /\ last.bm.co[v] # last.pre.co[v]
  /\ \E v \in Verts(last.pre) : last.pre.weight[v] = NoWeight

\* the step was given one edge whose two ends carry the same weight W > 0
SingleEdge ==
  /\ last.ran
  /\ Len(last.pre.co) = 2
  /\ last.pre.edges = <<<<1, 2>>>>
  /\ last.pre.weight[1] = last.pre.weight[2]
  /\ ~Inactive(last.pre.weight[1])

\* C2, as claimed. A single edge of start length L and start weight W is cut
\* iff L * W > split_radius.
C2_StartThreshold ==
  SingleEdge =>
    ((1 \in last.edges_to_subdivide)
       <=> SRLt(SR(settings.split_radius),
                SRMul(calc_length(last.pre.co, <<1, 2>>),
                      SR(last.pre.weight[1]))))

\* C2, amended. The edge is cut iff split_radius > 0 and L' * W' > split_radius,
\* L' its length after the force pass and W' = W ** weight_decay.
C2_Threshold ==
  SingleEdge =>
    ((1 \in last.edges_to_subdivide)
       <=> /\ RLt(Zero, settings.split_radius)
           /\ SRLt(SR(settings.split_radius),
                   SRMul(calc_length(last.co_force, <<1, 2>>),
                         SR(Pow(last.pre.weight[1], settings.weight_decay)))))

\* at the threshold exactly: L' * W' = split_radius, although L * W is above it
C2_Witness ==
  /\ SingleEdge
  /\ RLt(Zero, settings.split_radius)
  /\ SRMul(calc_length(last.co_force, <<1, 2>>),
           SR(Pow(last.pre.weight[1], settings.weight_decay)))
       = SR(settings.split_radius)
  /\ SRLt(SR(settings.split_radius),
          SRMul(calc_length(last.pre.co, <<1, 2>>), SR(last.pre.weight[1])))
  /\ last.edges_to_subdivide = {}

\* C3. A vertex whose weight is 0 or unassigned when the step starts is where
\* it was after the force pass.
C3_ActiveSetExclusion ==
  last.ran =>
    \A v \in Verts(last.pre) :
      Inactive(last.pre.weight[v]) => last.co_force[v] = last.pre.co[v]

C3_Witness ==
  /\ last.ran
  /\ settings.fac_attr = One /\ settings.fac_rep = One /\ settings.fac_noise = One
  /\ \E v \in Verts(last.pre) :
       /\ Inactive(last.pre.weight[v])
       /\ last.co_force[v] = last.pre.co[v]
       /\ \E n \in Nbrs(last.pre.edges, v) : last.co_force[n] # last.pre.co[n]

\* the end-to-end scenario: the one-quad grid, all weights 1, collision_radius
\* 1, split_radius 0.5, dt 1, fac_noise 0, fac_attr 1, fac_rep 0
GridScenario ==
  /\ last.ran
  /\ last.pre.faces
  /\ Len(last.pre.co) = 4
  /\ \A v \in 1 .. 4 : last.pre.weight[v] = One
  /\ settings.collision_radius = One
  /\ settings.split_radius = Half
  /\ settings.dt = One
  /\ settings.fac_noise = Zero /\ settings.fac_attr = One /\ settings.fac_rep = Zero

\* C4, as claimed. Every vertex of the scenario is displaced by the sum over
\* its neighbours of (neighbour - self), all taken at the start of the step.
C4_StartOffsets ==
  GridScenario =>
    \A v \in 1 .. 4 :
      VSub(last.bm.co[v], last.pre.co[v]) = OffsetSum(v, last.pre.co)

\* C4, amended. Every vertex of the scenario is displaced by the sum over its
\* neighbours of (neighbour - self) with each neighbour that comes earlier in
\* bm.verts taken where the pass has already moved it.
C4_Displacement ==
  GridScenario =>
    \A v \in 1 .. 4 :
      VSub(last.bm.co[v], last.pre.co[v])
        = OffsetSum(v, [n \in 1 .. 4 |-> SeenBy(v, n)])

C4_Witness ==
  /\ GridScenario
  /\ VSub(last.bm.co[1], last.pre.co[1]) = OffsetSum(1, last.pre.co)
  /\ VSub(last.bm.co[2], last.pre.co[2]) # OffsetSum(2, last.pre.co)

\* C5, as claimed. The scenario cuts no edge.
C5_NoSubdivision ==
  GridScenario =>
    /\ last.edges_to_subdivide = {}
    /\ Len(last.bm.co) = Len(last.pre.co)
    /\ Len(last.bm.edges) = Len(last.pre.edges)

\* C5, amended. The force pass of the scenario leaves every edge as long as
\* it was; the step cuts no edge when that length is at most 0.5, and puts all
\* four edges on the list when it is more.
C5_SubdivisionByLength ==
  GridScenario =>
    /\ \A e \in 1 .. 4 :
         calc_length(last.co_force, last.pre.edges[e])
           = calc_length(last.pre.co, last.pre.edges[e])
    /\ IF \A e \in 1 .. 4 :
            ~SRLt(SR(Half), calc_length(last.pre.co, last.pre.edges[e]))
       THEN /\ last.edges_to_subdivide = {}
            /\ Len(last.bm.co) = Len(last.pre.co)
            /\ Len(last.bm.edges) = Len(last.pre.edges)
       ELSE last.edges_to_subdivide = 1 .. 4

C5_Witness ==
  /\ GridScenario
  /\ calc_length(last.pre.co, <<1, 2>>) = SR(Half)
  /\ last.bm.co # last.pre.co
  /\ last.edges_to_subdivide = {}

\* C6. With weight_decay > 0, a vertex whose weight is 0 (or unassigned) when
\* a step starts has weight 0 when the next step starts, and is not among the
\* vertices that step collects.
C6_PermanentInactivity ==
  [][\A v \in Verts(mesh) :
       (settings.weight_decay > 0 /\ Inactive(mesh.weight[v]))
         => /\ Inactive(mesh'.weight[v])
            /\ Inactive(last'.bm.weight[v])
            /\ \A i \in 1 .. Len(last'.verts) : last'.verts[i] # v]_vars

\* a second step, after a step that cut an edge, starts with a vertex at 0
\* next to an active one
C6_Witness ==
  /\ steps = 2
  /\ Returned
  /\ settings.weight_decay > 0
  /\ Len(last.pre.co) > 3
  /\ last.verts # <<>>
  /\ \E v \in 1 .. 2 :
       /\ last.pre.weight[v] = Zero
       /\ last.bm.weight[v] = Zero
       /\ \E n \in Nbrs(last.pre.edges, v) : ~Inactive(last.pre.weight[n])

\* C7. A step that starts with no vertex of weight > 0 moves no vertex and
\* cuts no edge, and its decay loop writes every weight.
C7_EmptyActiveSet ==
  (last.ran /\ \A v \in Verts(last.pre) : Inactive(last.pre.weight[v])) =>
    /\ last.co_force = last.pre.co
    /\ last.bm.co = last.pre.co
    /\ last.edges_to_subdivide = {}
    /\ last.bm.edges = last.pre.edges
    /\ Decayed =>
         \A v \in Verts(last.pre) :
           last.bm.weight[v] = Pow(Zero, settings.weight_decay)

C7_Witness ==
  /\ Returned
  /\ \A v \in Verts(last.pre) : Inactive(last.pre.weight[v])
  /\ last.pre.edges # <<>>
  /\ settings.weight_decay = 0
  /\ settings.split_radius = Zero
  /\ \E v \in Verts(last.pre) : last.pre.weight[v] = NoWeight
  /\ \A v \in Verts(last.pre) : last.bm.weight[v] = One

\* C8, as claimed. grow_step returns without raising.
C8_AlwaysCompletes == last.ran => last.raised = "none"

\* C9. The repulsion term of every active vertex is the one computed from the
\* positions at the start of the step alone; its attraction term reads each
\* neighbour that comes earlier in the pass where the pass has moved it.
C9_ReadOrder ==
  last.ran =>
    \A i \in 1 .. Len(last.verts) :
      LET v == last.verts[i]
      IN  /\ last.f_rep[v]
               = calc_vert_repulsion(last.pre.co, last.pre.co, v,
                                     settings.collision_radius)
          /\ last.f_attr[v]
               = OffsetSum(v, [n \in Verts(last.pre) |-> SeenBy(v, n)])

C9_Witness ==
  /\ last.ran
  /\ \E i \in 1 .. Len(last.verts) :
       LET v == last.verts[i]
       IN  /\ last.f_rep[v] # ZeroVec
           /\ last.f_attr[v] # OffsetSum(v, last.pre.co)
           /\ \E n \in Nbrs(last.pre.edges, v) :
                n < v /\ last.co_force[n] # last.pre.co[n]
           /\ last.f_rep[v]
                # calc_vert_repulsion(last.co_force, last.co_force, v,
                                      settings.collision_radius)

\* C10, as claimed. Every working copy execute has acquired has been written
\* back and freed.
C10_ScopedCopy == unfreed = 0

====
